---- MODULE Spec2Model ----
(***************************************************************************)
(* Studizen: registration with OTP e-mail verification.                    *)
(*                                                                         *)
(* The model follows the client code: RegisterPage.onSubmit (account       *)
(* creation, OTP minting and persisting, e-mail dispatch with the on-      *)
(* screen fallback), VerificationPage (the four code boxes, handleVerify,  *)
(* handleResendCode, the resend cooldown), the OTP utilities, and the      *)
(* page routing of AppContent.  The managed backend (auth, tables) is the  *)
(* environment: each call to it either succeeds or fails.                  *)
(*                                                                         *)
(* Time is counted in minutes.  Strings that the code builds or parses     *)
(* (the OTP code, the ISO timestamp) are sequences built and parsed the    *)
(* way the code does.                                                      *)
(***************************************************************************)
EXTENDS Integers, Sequences, FiniteSets, TLC

VARIABLES
  now,               \* wall clock, minutes
  accounts,          \* auth.users: set of [id, email]
  profiles,          \* public.profiles: set of [id, email, is_verified]
  otps,              \* public.otp_verifications: set of rows
  otpSeq,            \* number of rows ever inserted (row ids)
  session,           \* the auth client's signed-in user id, or None
  user,              \* useAuth().user as AppContent sees it
  loading,           \* useAuth().loading
  currentPage,       \* AppContent state
  verificationEmail, \* AppContent state
  isAdmin,           \* AppContent state
  regPc,             \* RegisterPage.onSubmit: where the handler is
  regEmail,          \* data.email of the running onSubmit
  regUserId,         \* authData.user.id
  regOtp,            \* const otp
  regExpiresAt,      \* const expiresAt
  regSwallowed,      \* a call of the running onSubmit failed and no toast said so
  otp,               \* VerificationPage state: the four boxes
  vLoading,          \* VerificationPage state: loading
  resendCooldown,    \* VerificationPage state
  verifyCalls,       \* handleVerify calls of this screen since its last resend
  sinceResend,       \* timer periods since this screen's last resend click
  verifyPc,          \* handleVerify: where the handler is
  verifyCode,        \* otpCode captured by the running handleVerify
  verifyEmail,       \* email prop captured by the running handleVerify
  resendPc,          \* handleResendCode: where the handler is
  toast,             \* the toast the last step showed, if any
  ev,                \* the handler step that has just completed
  lastIssue,         \* the last persisted code, until a verify or resend follows
  urlRecovery,       \* window.location.search carries access_token and type=recovery
  loginPc,           \* LoginForm.onSubmit: where the handler is
  loginEmail,        \* data.email of the running onSubmit
  loginUserId,       \* authData.user.id
  formLoading,       \* LoginForm state: loading, of the form that is mounted
  jadwal_kuliah,     \* public.jadwal_kuliah: set of [id, user_id]
  tugas,             \* public.tugas: set of [id, user_id]
  subtasks,          \* public.subtasks: set of [id, tugas_id]
  premium_subscriptions, \* public.premium_subscriptions: set of rows
  isPremium,         \* PremiumProvider state
  subscription,      \* PremiumProvider state: the row, or NoSubscription
  refreshing,        \* the refreshPremiumStatus calls that await their query
  subscribing        \* the subscribeToPremium call that is running, or NoCall

storeVars == <<accounts, profiles, otps, otpSeq, session>>
appVars   == <<user, loading, currentPage, verificationEmail, isAdmin>>
regVars   == <<regPc, regEmail, regUserId, regOtp, regExpiresAt, regSwallowed>>
pageVars  == <<otp, vLoading, resendCooldown, verifyCalls, sinceResend>>
verVars   == <<verifyPc, verifyCode, verifyEmail, resendPc>>
histVars  == <<toast, ev, lastIssue>>
loginVars == <<loginPc, loginEmail, loginUserId, formLoading>>
dataVars  == <<jadwal_kuliah, tugas, subtasks, premium_subscriptions>>
premVars  == <<isPremium, subscription, refreshing, subscribing>>
extVars   == <<urlRecovery, loginVars, dataVars, premVars>>
vars == <<now, storeVars, appVars, regVars, pageVars, verVars, histVars, extVars>>

-----------------------------------------------------------------------------
(* Bounds of the exploration *)

NumDraws == 2
StartTime == 48
MaxTicks == 3
RandomResolution == 9000
MaxVerifyCalls == 6
MaxMonths == 2
MaxRefreshing == 2

(* Program constants *)

OTP_VALID_MINUTES == 10
OTP_BASE == 1000
OTP_SPAN == 9000
OTP_BOXES == 4
RESEND_COOLDOWN == 60
TimerPeriodMs == 1000

-----------------------------------------------------------------------------
(* Input sets *)

\* the e-mail typed into the registration form
Emails == {"a@x.com"}

\* Math.random() = k / RandomResolution for the k below
DrawNames == <<111, 0, 11, 1, 110>>
RandomDraws == {DrawNames[i] : i \in 1..NumDraws}

\* what the user can put into one box: nothing, one key, or a two-character paste
OtpInputs == {<<>>, <<"1">>, <<"1", "1">>}

None == 0
NoEmail == ""
NoResend == -1
NoSubscription == [id |-> None]
NoCall == [pc |-> "idle"]
\* the clock is sampled twice per validity window
TickMinutes == OTP_VALID_MINUTES \div 2
MaxTime == StartTime + MaxTicks * TickMinutes

-----------------------------------------------------------------------------
(* otpUtils *)

DigitChar(d) == <<"0", "1", "2", "3", "4", "5", "6", "7", "8", "9">>[d + 1]

RECURSIVE NumberToString(_)
NumberToString(n) ==
  IF n < 10 THEN <<DigitChar(n)>>
  ELSE NumberToString(n \div 10) \o <<DigitChar(n % 10)>>

\* a variant that forgets the 1000 offset: codes shorter than four digits
generateOTP_NoBase(k) == NumberToString((k * OTP_SPAN) \div RandomResolution)

\* a variant whose span is one short of 10000 instead of 9000
generateOTP_WideSpan(k) ==
  NumberToString(OTP_BASE + ((k * (OTP_SPAN + OTP_BASE - 1)) \div RandomResolution))

\* Math.floor(1000 + Math.random() * 9000).toString(),
\* with Math.random() = k / RandomResolution
generateOTP(k) == NumberToString(OTP_BASE + ((k * OTP_SPAN) \div RandomResolution))

\* Date fields: t is minutes since the epoch
getMinutes(t) == t % 60
setMinutes(t, m) == (t - (t % 60)) + m
toISOString(t) == <<t \div 60, t % 60>>
NewDate(iso) == iso[1] * 60 + iso[2]

\* Date.getMonth and Date.setMonth, with months of MinutesPerMonth minutes
MinutesPerMonth == 43200
getMonth(t) == t \div MinutesPerMonth
setMonth(t, m) == m * MinutesPerMonth + (t % MinutesPerMonth)

\* a variant with the comparison off by one: expired at the boundary itself
isOTPExpired_AtBoundary(expiresAt) == now >= NewDate(expiresAt)

isOTPExpired(expiresAt) == now > NewDate(expiresAt)

getOTPExpirationTime == toISOString(setMinutes(now, getMinutes(now) + OTP_VALID_MINUTES))

-----------------------------------------------------------------------------
(* Helpers *)

EmptyOtp == <<<<>>, <<>>, <<>>, <<>>>>

\* otp.join('')
RECURSIVE Join(_)
Join(boxes) == IF boxes = <<>> THEN <<>> ELSE Head(boxes) \o Join(Tail(boxes))

NoToast == [title |-> "", variant |-> "default", code |-> <<>>]
Toast(t, v, c) == [title |-> t, variant |-> v, code |-> c]

NoIssue == [email |-> NoEmail, code |-> <<>>, expires_at |-> <<0, 0>>]

\* ev: the handler that has just returned (op), the e-mail and code it ran
\* with, what it reported (result), the number of fetch('/api/send-otp-email')
\* calls it made (sends), what the stored rows said about the code (class) and
\* whether the code was the one just issued for that e-mail (roundTrip)
Ev(op, e, c, r, n, cl, rt) ==
  [op |-> op, email |-> e, code |-> c, result |-> r, sends |-> n, class |-> cl,
   roundTrip |-> rt]
Quiet == Ev("none", NoEmail, <<>>, "", 0, "", FALSE)
\* the same, with what was typed into the prompt of handleDeleteAccount
Typed(e, confirmation) == e @@ [typed |-> confirmation]

\* the unused rows a lookup by (email, otp_code, is_used = false) returns
Matching(e, c) == {r \in otps : r.email = e /\ r.otp_code = c /\ ~r.is_used}

\* what the stored rows say about a submitted code
MatchClass(e, c) ==
  IF \E r \in Matching(e, c) : now <= NewDate(r.expires_at) THEN "valid"
  ELSE IF Matching(e, c) # {} THEN "expired"
  ELSE "none"

\* a variant in which a signed-in user comes before the recovery link
Route_UserFirst(u, ld, adm, page) ==
  IF ld THEN page
  ELSE IF adm THEN "admin-panel"
  ELSE IF u # None THEN "dashboard"
  ELSE IF urlRecovery THEN "reset-password"
  ELSE "welcome"

\* the routing effect of AppContent, run when user, loading or isAdmin changes
Route(u, ld, adm, page) ==
  IF ld THEN page
  ELSE IF urlRecovery THEN "reset-password"
  ELSE IF u # None \/ adm
       THEN IF adm THEN "admin-panel" ELSE "dashboard"
       ELSE "welcome"

\* setCurrentPage(p): a VerificationPage that stays mounted keeps its state,
\* any other page change leaves a fresh one
SetPage(p) ==
  /\ currentPage' = p
  /\ IF p = "verification" /\ currentPage = "verification"
     THEN UNCHANGED pageVars
     ELSE /\ otp' = EmptyOtp /\ vLoading' = FALSE /\ resendCooldown' = 0
          /\ verifyCalls' = 0 /\ sinceResend' = NoResend

\* the cooldown effect: one decrement per timer period while positive
RECURSIVE CountDown(_, _)
CountDown(c, n) == IF n = 0 \/ c = 0 THEN c ELSE CountDown(c - 1, n - 1)

\* n more timer periods after the last resend click; counted up to one past
\* the cooldown, where it no longer matters
Elapsed(s, n) ==
  IF s = NoResend THEN NoResend
  ELSE IF s + n > RESEND_COOLDOWN THEN RESEND_COOLDOWN + 1 ELSE s + n

-----------------------------------------------------------------------------
\* the login form, the user-data tables and the premium context before
\* anything has happened; the page was opened without a recovery link
ExtInit ==
  /\ urlRecovery = FALSE
  /\ loginPc = "idle" /\ loginEmail = NoEmail /\ loginUserId = None
  /\ formLoading = FALSE
  /\ jadwal_kuliah = {} /\ tugas = {} /\ subtasks = {}
  /\ premium_subscriptions = {}
  /\ isPremium = FALSE /\ subscription = NoSubscription
  /\ refreshing = {} /\ subscribing = NoCall

Init ==
  /\ now = StartTime
  /\ accounts = {} /\ profiles = {} /\ otps = {} /\ otpSeq = 0
  /\ session = None /\ user = None /\ loading = TRUE
  /\ currentPage = "welcome" /\ verificationEmail = NoEmail /\ isAdmin = FALSE
  /\ regPc = "idle" /\ regEmail = NoEmail /\ regUserId = None
  /\ regOtp = <<>> /\ regExpiresAt = <<0, 0>> /\ regSwallowed = FALSE
  /\ otp = EmptyOtp /\ vLoading = FALSE /\ resendCooldown = 0
  /\ verifyCalls = 0 /\ sinceResend = NoResend
  /\ verifyPc = "idle" /\ verifyCode = <<>> /\ verifyEmail = NoEmail
  /\ resendPc = "idle"
  /\ toast = NoToast /\ ev = Quiet /\ lastIssue = NoIssue
  /\ ExtInit

-----------------------------------------------------------------------------
(* The clock, and AppContent *)

\* time passes; the cooldown timer fires once per TimerPeriodMs meanwhile
Tick ==
  /\ now < MaxTime
  /\ now' = now + TickMinutes
  /\ resendCooldown' = CountDown(resendCooldown, (TickMinutes * 60000) \div TimerPeriodMs)
  /\ sinceResend' = Elapsed(sinceResend, (TickMinutes * 60000) \div TimerPeriodMs)
  /\ ev' = Quiet /\ toast' = NoToast
  /\ UNCHANGED <<storeVars, appVars, regVars, otp, vLoading, verifyCalls, verVars,
                 lastIssue>>
  /\ UNCHANGED extVars

\* useAuth finishes loading the stored session
AuthLoaded ==
  /\ loading
  /\ loading' = FALSE
  /\ user' = session
  /\ SetPage(Route(session, FALSE, isAdmin, currentPage))
  /\ ev' = Quiet /\ toast' = NoToast
  /\ UNCHANGED <<now, storeVars, verificationEmail, isAdmin, regVars, verVars, lastIssue>>
  /\ UNCHANGED extVars

\* the auth listener delivers a sign-in or sign-out; the routing effect runs
AuthStateChange ==
  /\ ~loading
  /\ user # session
  /\ user' = session
  /\ SetPage(Route(session, loading, isAdmin, currentPage))
  /\ ev' = Quiet /\ toast' = NoToast
  /\ UNCHANGED <<now, storeVars, loading, verificationEmail, isAdmin, regVars,
                 verVars, lastIssue>>
  /\ UNCHANGED extVars

WelcomeRegisterClick ==
  /\ ~loading
  /\ currentPage = "welcome"
  /\ SetPage("register")
  /\ ev' = Quiet /\ toast' = NoToast
  /\ UNCHANGED <<now, storeVars, user, loading, verificationEmail, isAdmin,
                 regVars, verVars, lastIssue>>
  /\ UNCHANGED extVars

RegisterBackClick ==
  /\ ~loading
  /\ currentPage = "register"
  /\ SetPage("welcome")
  /\ ev' = Quiet /\ toast' = NoToast
  /\ UNCHANGED <<now, storeVars, user, loading, verificationEmail, isAdmin,
                 regVars, verVars, lastIssue>>
  /\ UNCHANGED extVars

VerificationBackClick ==
  /\ ~loading
  /\ currentPage = "verification"
  /\ SetPage("register")
  /\ ev' = Quiet /\ toast' = NoToast
  /\ UNCHANGED <<now, storeVars, user, loading, verificationEmail, isAdmin,
                 regVars, verVars, lastIssue>>
  /\ UNCHANGED extVars

\* Dashboard.handleLogout: signOut(); the listener then routes to welcome
DashboardLogout ==
  /\ ~loading
  /\ currentPage = "dashboard"
  /\ session' = None
  /\ ev' = Quiet /\ toast' = NoToast
  /\ UNCHANGED <<now, accounts, profiles, otps, otpSeq, appVars, regVars,
                 pageVars, verVars, lastIssue>>
  /\ UNCHANGED extVars

-----------------------------------------------------------------------------
(* RegisterPage.onSubmit, one step per awaited call *)

RegisterSubmit(e) ==
  /\ ~loading
  /\ currentPage = "register"
  /\ regPc = "idle"
  /\ regPc' = "checkExisting"
  /\ regEmail' = e
  /\ regUserId' = None /\ regOtp' = <<>> /\ regExpiresAt' = <<0, 0>>
  /\ regSwallowed' = FALSE
  /\ ev' = Quiet /\ toast' = NoToast
  /\ UNCHANGED <<now, storeVars, appVars, pageVars, verVars, lastIssue>>
  /\ UNCHANGED extVars

\* profiles.select('email').eq('email', data.email).single(); the error is
\* not read, so a failed or filtered query is "no such user"
RegisterCheckExisting(answered) ==
  /\ regPc = "checkExisting"
  /\ LET existingUser == answered /\ (\E p \in profiles : p.email = regEmail)
     IN IF existingUser
        THEN /\ toast' = Toast("Registrasi Gagal", "destructive", <<>>)
             /\ regPc' = "idle"
             /\ regEmail' = NoEmail
             /\ ev' = Ev("register_exists", regEmail, <<>>, "halt", 0, "", FALSE)
        ELSE /\ regPc' = "signUp"
             /\ ev' = Quiet
             /\ toast' = NoToast
             /\ UNCHANGED regEmail
  /\ UNCHANGED <<now, storeVars, appVars, regUserId, regOtp,
                 regExpiresAt, pageVars, verVars, lastIssue>>
  /\ regSwallowed' = (regPc' # "idle" /\ ~answered)
  /\ UNCHANGED extVars

\* auth.signUp, then generateOTP() and getOTPExpirationTime().  The auth
\* provider keeps e-mails unique; the handle_new_user trigger adds the profile.
RegisterSignUp(outcome, k, signedIn) ==
  /\ regPc = "signUp"
  /\ IF outcome = "ok"
     THEN /\ ~(\E a \in accounts : a.email = regEmail)
          /\ LET id == Cardinality(accounts) + 1
             IN /\ accounts' = accounts \cup {[id |-> id, email |-> regEmail]}
                /\ profiles' = profiles \cup
                     {[id |-> id, email |-> regEmail, is_verified |-> FALSE]}
                /\ session' = IF signedIn THEN id ELSE session
                /\ regUserId' = id
          /\ regOtp' = generateOTP(k)
          /\ regExpiresAt' = getOTPExpirationTime
          /\ regPc' = "insertOtp"
          /\ ev' = Quiet
          /\ toast' = NoToast
          /\ UNCHANGED regEmail
     ELSE /\ toast' = Toast("Registrasi Gagal", "destructive", <<>>)
          /\ regPc' = "idle"
          /\ ev' = Ev(IF outcome = "error" THEN "register_auth_error"
                      ELSE "register_no_user", regEmail, <<>>, "halt", 0, "", FALSE)
          /\ regEmail' = NoEmail
          /\ UNCHANGED <<accounts, profiles, session, regUserId, regOtp,
                         regExpiresAt>>
  /\ UNCHANGED <<now, otps, otpSeq, appVars, pageVars, verVars, lastIssue>>
  /\ regSwallowed' = (regPc' # "idle" /\ regSwallowed)
  /\ UNCHANGED extVars

\* a variant that opens the verification screen as soon as the row is stored,
\* before the dispatch has been attempted
RegisterInsertOtp_EarlyScreen(stored) ==
  /\ regPc = "insertOtp"
  /\ IF stored
     THEN /\ otps' = otps \cup
                {[id |-> otpSeq + 1, user_id |-> regUserId, email |-> regEmail,
                  otp_code |-> regOtp, expires_at |-> regExpiresAt,
                  is_used |-> FALSE, created_at |-> now]}
          /\ otpSeq' = otpSeq + 1
          /\ regPc' = "sendEmail"
          /\ lastIssue' = [email |-> regEmail, code |-> regOtp,
                           expires_at |-> regExpiresAt]
          /\ ev' = Ev("issue", regEmail, regOtp, "stored", 0, "", FALSE)
          /\ toast' = NoToast
          /\ verificationEmail' = regEmail
          /\ SetPage("verification")
          /\ UNCHANGED <<regEmail, regUserId, regOtp, regExpiresAt>>
     ELSE /\ toast' = Toast("Error", "destructive", <<>>)
          /\ regPc' = "idle"
          /\ regEmail' = NoEmail /\ regUserId' = None
          /\ regOtp' = <<>> /\ regExpiresAt' = <<0, 0>>
          /\ ev' = Ev("register_otp_error", regEmail, regOtp, "halt", 0, "", FALSE)
          /\ UNCHANGED <<otps, otpSeq, lastIssue, currentPage, verificationEmail,
                         pageVars>>
  /\ UNCHANGED <<now, accounts, profiles, session, user, loading, isAdmin, verVars>>
  /\ regSwallowed' = (regPc' # "idle" /\ regSwallowed)
  /\ UNCHANGED extVars

\* a variant that does not read otpError and goes on to the dispatch
RegisterInsertOtp_IgnoreError(stored) ==
  /\ regPc = "insertOtp"
  /\ IF stored
     THEN /\ otps' = otps \cup
                {[id |-> otpSeq + 1, user_id |-> regUserId, email |-> regEmail,
                  otp_code |-> regOtp, expires_at |-> regExpiresAt,
                  is_used |-> FALSE, created_at |-> now]}
          /\ otpSeq' = otpSeq + 1
          /\ lastIssue' = [email |-> regEmail, code |-> regOtp,
                           expires_at |-> regExpiresAt]
          /\ ev' = Ev("issue", regEmail, regOtp, "stored", 0, "", FALSE)
          /\ toast' = NoToast
     ELSE /\ toast' = NoToast
          /\ ev' = Ev("register_otp_error", regEmail, regOtp, "halt", 0, "", FALSE)
          /\ UNCHANGED <<otps, otpSeq, lastIssue>>
  /\ regPc' = "sendEmail"
  /\ UNCHANGED <<now, accounts, profiles, session, appVars, regEmail, regUserId,
                 regOtp, regExpiresAt, pageVars, verVars>>
  /\ regSwallowed' = (regPc' # "idle" /\ regSwallowed)
  /\ UNCHANGED extVars

\* otp_verifications.insert([{user_id, email, otp_code, expires_at}]);
\* id, is_used and created_at take the table's defaults
RegisterInsertOtp(stored) ==
  /\ regPc = "insertOtp"
  /\ IF stored
     THEN /\ otps' = otps \cup
                {[id |-> otpSeq + 1, user_id |-> regUserId, email |-> regEmail,
                  otp_code |-> regOtp, expires_at |-> regExpiresAt,
                  is_used |-> FALSE, created_at |-> now]}
          /\ otpSeq' = otpSeq + 1
          /\ regPc' = "sendEmail"
          /\ lastIssue' = [email |-> regEmail, code |-> regOtp,
                           expires_at |-> regExpiresAt]
          /\ ev' = Ev("issue", regEmail, regOtp, "stored", 0, "", FALSE)
          /\ toast' = NoToast
          /\ UNCHANGED <<regEmail, regUserId, regOtp, regExpiresAt>>
     ELSE /\ toast' = Toast("Error", "destructive", <<>>)
          /\ regPc' = "idle"
          /\ regEmail' = NoEmail /\ regUserId' = None
          /\ regOtp' = <<>> /\ regExpiresAt' = <<0, 0>>
          /\ ev' = Ev("register_otp_error", regEmail, regOtp, "halt", 0, "", FALSE)
          /\ UNCHANGED <<otps, otpSeq, lastIssue>>
  /\ UNCHANGED <<now, accounts, profiles, session, appVars, pageVars, verVars>>
  /\ regSwallowed' = (regPc' # "idle" /\ regSwallowed)
  /\ UNCHANGED extVars

\* App's onRegisterSuccess: setVerificationEmail(email); setCurrentPage('verification')
onRegisterSuccess(e) ==
  /\ verificationEmail' = e
  /\ SetPage("verification")

\* a variant without the inner try/catch: a failed dispatch lands in the outer
\* catch, which shows the generic error and does not call onRegisterSuccess
RegisterSendEmail_NoFallback(delivered) ==
  /\ regPc = "sendEmail"
  /\ IF delivered
     THEN /\ toast' = Toast("Registrasi Berhasil", "default", <<>>)
          /\ ev' = Ev("register_sent", regEmail, regOtp, "verification", 1, "", FALSE)
          /\ onRegisterSuccess(regEmail)
     ELSE /\ toast' = Toast("Error", "destructive", <<>>)
          /\ ev' = Ev("register_send_failed", regEmail, regOtp, "halt", 1, "", FALSE)
          /\ UNCHANGED <<currentPage, verificationEmail, pageVars>>
  /\ regPc' = "idle"
  /\ regEmail' = NoEmail /\ regUserId' = None
  /\ regOtp' = <<>> /\ regExpiresAt' = <<0, 0>>
  /\ UNCHANGED <<now, storeVars, user, loading, isAdmin, verVars, lastIssue>>
  /\ regSwallowed' = (regPc' # "idle" /\ regSwallowed)
  /\ UNCHANGED extVars

\* sendOTPEmail inside its own try/catch: one fetch; a thrown fetch or a
\* response that is not ok lands in the catch, which shows the code
RegisterSendEmail(delivered) ==
  /\ regPc = "sendEmail"
  /\ IF delivered
     THEN /\ toast' = Toast("Registrasi Berhasil", "default", <<>>)
          /\ ev' = Ev("register_sent", regEmail, regOtp, "verification", 1, "", FALSE)
     ELSE /\ toast' = Toast("Registrasi Berhasil", "default", regOtp)
          /\ ev' = Ev("register_send_failed", regEmail, regOtp, "verification", 1,
                      "", FALSE)
  /\ onRegisterSuccess(regEmail)
  /\ regPc' = "idle"
  /\ regEmail' = NoEmail /\ regUserId' = None
  /\ regOtp' = <<>> /\ regExpiresAt' = <<0, 0>>
  /\ UNCHANGED <<now, storeVars, user, loading, isAdmin, verVars, lastIssue>>
  /\ regSwallowed' = (regPc' # "idle" /\ regSwallowed)
  /\ UNCHANGED extVars

-----------------------------------------------------------------------------
(* VerificationPage *)

handleOtpChange(index, value) ==
  /\ ~loading
  /\ currentPage = "verification"
  /\ otp' = IF Len(value) > 1 THEN otp ELSE [otp EXCEPT ![index] = value]
  /\ ev' = Quiet /\ toast' = NoToast
  /\ UNCHANGED <<now, storeVars, appVars, regVars, vLoading, resendCooldown,
                 verifyCalls, sinceResend, verVars, lastIssue>>
  /\ UNCHANGED extVars

\* what handleVerify reports for a submitted code: the length test, then the
\* simulated verification, which always resolves
handleVerifyResult(e, otpCode) ==
  IF Len(otpCode) # OTP_BOXES THEN "Incomplete" ELSE "Success"

\* the click: the length test, setLoading(true), and the wait begins
VerifyClick ==
  /\ ~loading
  /\ currentPage = "verification"
  /\ ~vLoading
  /\ verifyPc = "idle"
  /\ verifyCalls < MaxVerifyCalls
  /\ verifyCalls' = verifyCalls + 1
  /\ LET otpCode == Join(otp)
     IN IF handleVerifyResult(verificationEmail, otpCode) = "Incomplete"
        THEN /\ toast' = Toast("Kode OTP Tidak Lengkap", "destructive", <<>>)
             /\ ev' = Ev("verify", verificationEmail, otpCode, "Incomplete", 0,
                         MatchClass(verificationEmail, otpCode),
                         /\ lastIssue.email = verificationEmail
                         /\ lastIssue.code = otpCode
                         /\ lastIssue # NoIssue
                         /\ now <= NewDate(lastIssue.expires_at))
             /\ lastIssue' = NoIssue
             /\ UNCHANGED <<vLoading, verifyPc, verifyCode, verifyEmail>>
        ELSE /\ vLoading' = TRUE
             /\ verifyPc' = "wait"
             /\ verifyCode' = otpCode
             /\ verifyEmail' = verificationEmail
             /\ ev' = Quiet
             /\ toast' = NoToast /\ UNCHANGED lastIssue
  /\ UNCHANGED <<now, storeVars, appVars, regVars, otp, resendCooldown,
                 sinceResend, resendPc>>
  /\ UNCHANGED extVars

\* the wait is over: the success toast, onVerificationSuccess(), setLoading(false)
VerifyFinish ==
  /\ verifyPc = "wait"
  /\ toast' = Toast("Verifikasi Berhasil", "default", <<>>)
  /\ SetPage("dashboard")
  /\ verifyPc' = "idle"
  /\ ev' = Ev("verify", verifyEmail, verifyCode,
              handleVerifyResult(verifyEmail, verifyCode), 0,
              MatchClass(verifyEmail, verifyCode),
              /\ lastIssue.email = verifyEmail
              /\ lastIssue.code = verifyCode
              /\ lastIssue # NoIssue
              /\ now <= NewDate(lastIssue.expires_at))
  /\ lastIssue' = NoIssue
  /\ verifyCode' = <<>> /\ verifyEmail' = NoEmail
  /\ UNCHANGED <<now, storeVars, user, loading, verificationEmail, isAdmin,
                 regVars, resendPc>>
  /\ UNCHANGED extVars

\* a variant whose button is not disabled while the cooldown runs
ResendClick_NotDisabled ==
  /\ ~loading
  /\ currentPage = "verification"
  /\ resendPc = "idle"
  /\ resendCooldown' = RESEND_COOLDOWN
  /\ resendPc' = "wait"
  /\ verifyCalls' = 0 /\ sinceResend' = 0
  /\ ev' = Quiet /\ toast' = NoToast
  /\ UNCHANGED <<now, storeVars, appVars, regVars, otp, vLoading, verifyPc,
                 verifyCode, verifyEmail, lastIssue>>
  /\ UNCHANGED extVars

\* the click on "Resend Code": setResendCooldown(60), and the wait begins
ResendClick ==
  /\ ~loading
  /\ currentPage = "verification"
  /\ resendCooldown = 0
  /\ resendPc = "idle"
  /\ resendCooldown' = RESEND_COOLDOWN
  /\ resendPc' = "wait"
  /\ verifyCalls' = 0 /\ sinceResend' = 0
  /\ ev' = Quiet /\ toast' = NoToast
  /\ UNCHANGED <<now, storeVars, appVars, regVars, otp, vLoading, verifyPc,
                 verifyCode, verifyEmail, lastIssue>>
  /\ UNCHANGED extVars

\* a variant in which a resend re-arms the rows already stored for the e-mail
handleResendCode_Rearm ==
  /\ resendPc = "wait"
  /\ toast' = Toast("Kode Dikirim", "default", <<>>)
  /\ resendPc' = "idle"
  /\ otps' = {IF r.email = verificationEmail
              THEN [r EXCEPT !.expires_at = getOTPExpirationTime, !.is_used = FALSE]
              ELSE r : r \in otps}
  /\ ev' = Ev("resend", verificationEmail, <<>>, "sent", 0, "", FALSE)
  /\ lastIssue' = NoIssue
  /\ UNCHANGED <<now, accounts, profiles, otpSeq, session, appVars, regVars,
                 pageVars, verifyPc, verifyCode, verifyEmail>>
  /\ UNCHANGED extVars

\* the wait is over: the "Kode Dikirim" toast; nothing is stored or sent
handleResendCode ==
  /\ resendPc = "wait"
  /\ toast' = Toast("Kode Dikirim", "default", <<>>)
  /\ resendPc' = "idle"
  /\ ev' = Ev("resend", verificationEmail, <<>>, "sent", 0, "", FALSE)
  /\ lastIssue' = NoIssue
  /\ UNCHANGED <<now, storeVars, appVars, regVars, pageVars, verifyPc,
                 verifyCode, verifyEmail>>
  /\ UNCHANGED extVars

-----------------------------------------------------------------------------
(* ProfilePage: the e-mail form and the danger zone *)

\* what the user types into the prompt of handleDeleteAccount ("" = cancelled)
Confirmations == {"HAPUS AKUN", "hapus akun", ""}

DashboardProfileClick ==
  /\ ~loading
  /\ currentPage = "dashboard"
  /\ SetPage("profile")
  /\ ev' = Quiet /\ toast' = NoToast
  /\ UNCHANGED <<now, storeVars, user, loading, verificationEmail, isAdmin,
                 regVars, verVars, lastIssue>>
  /\ UNCHANGED extVars

ProfileBackClick ==
  /\ ~loading
  /\ currentPage = "profile"
  /\ SetPage("dashboard")
  /\ ev' = Quiet /\ toast' = NoToast
  /\ UNCHANGED <<now, storeVars, user, loading, verificationEmail, isAdmin,
                 regVars, verVars, lastIssue>>
  /\ UNCHANGED extVars

\* EmailForm.onSubmit: signInWithPassword with the current e-mail,
\* auth.updateUser({email}), profiles.update({email}) whose result is not
\* read, the toast, and the delayed signOut()
EmailFormSubmit(newEmail, passwordOk, updated, profileUpdated) ==
  /\ ~loading
  /\ currentPage = "profile"
  /\ user # None
  /\ IF ~passwordOk
     THEN /\ toast' = Toast("Password Salah", "destructive", <<>>)
          /\ ev' = Ev("email_change", newEmail, <<>>, "halt", 0, "", FALSE)
          /\ UNCHANGED <<accounts, profiles, session>>
     ELSE IF ~updated \/ (\E a \in accounts : a.email = newEmail /\ a.id # user)
     THEN /\ toast' = Toast("Gagal Mengubah Email", "destructive", <<>>)
          /\ ev' = Ev("email_change", newEmail, <<>>, "halt", 0, "", FALSE)
          /\ session' = user
          /\ UNCHANGED <<accounts, profiles>>
     ELSE /\ accounts' = {IF a.id = user THEN [a EXCEPT !.email = newEmail] ELSE a :
                            a \in accounts}
          /\ profiles' = IF profileUpdated
                         THEN {IF q.id = user THEN [q EXCEPT !.email = newEmail]
                               ELSE q : q \in profiles}
                         ELSE profiles
          /\ toast' = Toast("Email Berhasil Diubah", "default", <<>>)
          /\ ev' = Ev("email_change", newEmail, <<>>, "changed", 0, "", FALSE)
          /\ session' = None
  /\ UNCHANGED <<now, otps, otpSeq, appVars, regVars, pageVars, verVars, lastIssue>>
  /\ UNCHANGED extVars

\* a variant whose delete of otp_verifications has lost its user_id filter
handleDeleteAccount_NoFilter(confirmation, profileGone, jadwalGone, tugasGone, otpGone) ==
  /\ ~loading
  /\ currentPage = "profile"
  /\ IF user = None
     THEN /\ ev' = Ev("delete_account", NoEmail, <<>>, "nouser", 0, "", FALSE)
          /\ toast' = NoToast
          /\ UNCHANGED <<profiles, otps, session, jadwal_kuliah, tugas, subtasks>>
     ELSE IF confirmation # "HAPUS AKUN"
     THEN /\ toast' = Toast("Konfirmasi Gagal", "destructive", <<>>)
          /\ ev' = Typed(Ev("delete_account", NoEmail, <<>>, "halt", 0, "", FALSE),
                         confirmation)
          /\ UNCHANGED <<profiles, otps, session, jadwal_kuliah, tugas, subtasks>>
     ELSE /\ profiles' = IF profileGone THEN {q \in profiles : q.id # user}
                         ELSE profiles
          /\ jadwal_kuliah' = IF jadwalGone
                              THEN {j \in jadwal_kuliah : j.user_id # user}
                              ELSE jadwal_kuliah
          /\ LET kept == IF tugasGone THEN {t \in tugas : t.user_id # user}
                          ELSE tugas
             IN /\ tugas' = kept
                /\ subtasks' = {st \in subtasks : \E t \in kept : t.id = st.tugas_id}
          /\ otps' = IF otpGone THEN {} ELSE otps
          /\ toast' = Toast("Akun Berhasil Dihapus", "default", <<>>)
          /\ ev' = Typed(Ev("delete_account", NoEmail, <<>>, "deleted", 0, "", FALSE),
                         confirmation)
          /\ session' = None
  /\ UNCHANGED <<now, accounts, otpSeq, appVars, regVars, pageVars, verVars,
                 lastIssue, urlRecovery, loginVars, premium_subscriptions, premVars>>

\* a variant that compares the confirmation without regard to case
handleDeleteAccount_AnyCase(confirmation, profileGone, jadwalGone, tugasGone, otpGone) ==
  /\ ~loading
  /\ currentPage = "profile"
  /\ IF user = None
     THEN /\ ev' = Ev("delete_account", NoEmail, <<>>, "nouser", 0, "", FALSE)
          /\ toast' = NoToast
          /\ UNCHANGED <<profiles, otps, session, jadwal_kuliah, tugas, subtasks>>
     ELSE IF confirmation \notin {"HAPUS AKUN", "hapus akun"}
     THEN /\ toast' = Toast("Konfirmasi Gagal", "destructive", <<>>)
          /\ ev' = Typed(Ev("delete_account", NoEmail, <<>>, "halt", 0, "", FALSE),
                         confirmation)
          /\ UNCHANGED <<profiles, otps, session, jadwal_kuliah, tugas, subtasks>>
     ELSE /\ profiles' = IF profileGone THEN {q \in profiles : q.id # user}
                         ELSE profiles
          /\ jadwal_kuliah' = IF jadwalGone
                              THEN {j \in jadwal_kuliah : j.user_id # user}
                              ELSE jadwal_kuliah
          /\ LET kept == IF tugasGone THEN {t \in tugas : t.user_id # user}
                          ELSE tugas
             IN /\ tugas' = kept
                /\ subtasks' = {st \in subtasks : \E t \in kept : t.id = st.tugas_id}
          /\ otps' = IF otpGone THEN {r \in otps : r.user_id # user} ELSE otps
          /\ toast' = Toast("Akun Berhasil Dihapus", "default", <<>>)
          /\ ev' = Typed(Ev("delete_account", NoEmail, <<>>, "deleted", 0, "", FALSE),
                         confirmation)
          /\ session' = None
  /\ UNCHANGED <<now, accounts, otpSeq, appVars, regVars, pageVars, verVars,
                 lastIssue, urlRecovery, loginVars, premium_subscriptions, premVars>>

\* DangerZone.handleDeleteAccount: the prompt, then the deletes by user id
\* from profiles, jadwal_kuliah, tugas and otp_verifications (none of their
\* results is read), the toast and signOut().  Whether a delete removes the
\* rows is the backend's decision (row-level security, the connection); the
\* subtasks of a deleted tugas row go with it (ON DELETE CASCADE).
handleDeleteAccount(confirmation, profileGone, jadwalGone, tugasGone, otpGone) ==
  /\ ~loading
  /\ currentPage = "profile"
  /\ IF user = None
     THEN /\ ev' = Ev("delete_account", NoEmail, <<>>, "nouser", 0, "", FALSE)
          /\ toast' = NoToast
          /\ UNCHANGED <<profiles, otps, session, jadwal_kuliah, tugas, subtasks>>
     ELSE IF confirmation # "HAPUS AKUN"
     THEN /\ toast' = Toast("Konfirmasi Gagal", "destructive", <<>>)
          /\ ev' = Typed(Ev("delete_account", NoEmail, <<>>, "halt", 0, "", FALSE),
                         confirmation)
          /\ UNCHANGED <<profiles, otps, session, jadwal_kuliah, tugas, subtasks>>
     ELSE /\ profiles' = IF profileGone THEN {q \in profiles : q.id # user}
                         ELSE profiles
          /\ jadwal_kuliah' = IF jadwalGone
                              THEN {j \in jadwal_kuliah : j.user_id # user}
                              ELSE jadwal_kuliah
          /\ LET kept == IF tugasGone THEN {t \in tugas : t.user_id # user}
                          ELSE tugas
             IN /\ tugas' = kept
                /\ subtasks' = {st \in subtasks : \E t \in kept : t.id = st.tugas_id}
          /\ otps' = IF otpGone THEN {r \in otps : r.user_id # user} ELSE otps
          /\ toast' = Toast("Akun Berhasil Dihapus", "default", <<>>)
          /\ ev' = Typed(Ev("delete_account", NoEmail, <<>>, "deleted", 0, "", FALSE),
                         confirmation)
          /\ session' = None
  /\ UNCHANGED <<now, accounts, otpSeq, appVars, regVars, pageVars, verVars,
                 lastIssue, urlRecovery, loginVars, premium_subscriptions, premVars>>

\* one timer period passes on the verification screen: the timeout armed by
\* the cooldown effect fires and re-arms while the cooldown is positive
CooldownTimer ==
  /\ ~loading
  /\ currentPage = "verification"
  /\ resendCooldown > 0 \/ (sinceResend # NoResend /\ sinceResend <= RESEND_COOLDOWN)
  /\ resendCooldown' = CountDown(resendCooldown, 1)
  /\ sinceResend' = Elapsed(sinceResend, 1)
  /\ ev' = Quiet /\ toast' = NoToast
  /\ UNCHANGED <<now, storeVars, appVars, regVars, otp, vLoading, verifyCalls,
                 verVars, lastIssue>>
  /\ UNCHANGED extVars

-----------------------------------------------------------------------------
(* LoginForm.onSubmit, App's login and logout handlers, ResetPasswordPage *)

AdminEmail == "Adminstudizen@studizen.com"
AdminPassword == "admin123"

\* the login step that has just completed, with the password it was given
\* and the account it signed in
LoginEv(e, pw, result, uid) ==
  Ev("login", e, <<>>, result, 0, "", FALSE) @@ [password |-> pw, user_id |-> uid]

\* App.handleLoginSuccess; the routing effect runs when isAdmin has changed
handleLoginSuccess(adminLogin) ==
  /\ isAdmin' = adminLogin
  /\ LET target == IF adminLogin THEN "admin-panel" ELSE "dashboard"
     IN SetPage(IF isAdmin # adminLogin
                THEN Route(user, loading, adminLogin, target)
                ELSE target)

\* App.handleLogout, the onBackClick of AdminPanel; the routing effect runs
\* when isAdmin has changed
handleLogout ==
  /\ ~loading
  /\ currentPage = "admin-panel"
  /\ isAdmin' = FALSE
  /\ SetPage(IF isAdmin THEN Route(user, loading, FALSE, "welcome") ELSE "welcome")
  /\ ev' = Ev("admin_logout", NoEmail, <<>>, "", 0, "", FALSE)
  /\ toast' = NoToast
  /\ UNCHANGED <<now, storeVars, user, loading, verificationEmail, regVars,
                 verVars, lastIssue, extVars>>

WelcomeLoginClick ==
  /\ ~loading
  /\ currentPage = "welcome"
  /\ SetPage("login")
  /\ formLoading' = FALSE
  /\ ev' = Quiet /\ toast' = NoToast
  /\ UNCHANGED <<now, storeVars, user, loading, verificationEmail, isAdmin,
                 regVars, verVars, lastIssue, urlRecovery, loginPc, loginEmail,
                 loginUserId, dataVars, premVars>>

LoginBackClick ==
  /\ ~loading
  /\ currentPage = "login"
  /\ SetPage("welcome")
  /\ ev' = Quiet /\ toast' = NoToast
  /\ UNCHANGED <<now, storeVars, user, loading, verificationEmail, isAdmin,
                 regVars, verVars, lastIssue, extVars>>

\* the submit: the comparison with the admin literals, which ends the handler
\* when both match; otherwise the sign-in call begins.  A form that was left
\* and opened again is not disabled by a call that is still running; one
\* sign-in call runs at a time.
LoginSubmit(e, pw) ==
  /\ ~loading
  /\ currentPage = "login"
  /\ ~formLoading
  /\ IF e = AdminEmail /\ pw = AdminPassword
     THEN /\ toast' = Toast("Login Berhasil", "default", <<>>)
          /\ handleLoginSuccess(TRUE)
          /\ ev' = LoginEv(e, pw, "admin", None)
          /\ UNCHANGED loginVars
     ELSE /\ loginPc = "idle"
          /\ loginPc' = "signIn"
          /\ loginEmail' = e
          /\ loginUserId' = None
          /\ formLoading' = TRUE
          /\ ev' = Quiet /\ toast' = NoToast
          /\ UNCHANGED <<currentPage, isAdmin, pageVars>>
  /\ UNCHANGED <<now, storeVars, user, loading, verificationEmail, regVars,
                 verVars, lastIssue, urlRecovery, dataVars, premVars>>

\* auth.signInWithPassword: the backend accepts the credentials of an
\* existing account or answers with an error or without a user
LoginSignIn(outcome) ==
  /\ loginPc = "signIn"
  /\ IF outcome = "ok"
     THEN /\ \E a \in accounts : a.email = loginEmail
          /\ LET a == CHOOSE a \in accounts : a.email = loginEmail
             IN /\ session' = a.id
                /\ loginUserId' = a.id
          /\ loginPc' = "profile"
          /\ ev' = Quiet /\ toast' = NoToast
          /\ UNCHANGED <<loginEmail, formLoading>>
     ELSE /\ toast' = Toast("Login Gagal", "destructive", <<>>)
          /\ ev' = LoginEv(loginEmail, "", "halt", None)
          /\ loginPc' = "idle"
          /\ loginEmail' = NoEmail
          /\ formLoading' = FALSE
          /\ UNCHANGED <<session, loginUserId>>
  /\ UNCHANGED <<now, accounts, profiles, otps, otpSeq, appVars, regVars,
                 pageVars, verVars, lastIssue, urlRecovery, dataVars, premVars>>

\* profiles.select('is_verified').eq('id', authData.user.id).single(); the
\* error is not read.  A profile that says "not verified" leads to the
\* sign-out; a verified profile and no profile at all both lead to
\* onLoginSuccess(false).
LoginCheckProfile(answered) ==
  /\ loginPc = "profile"
  /\ LET found == {q \in profiles : answered /\ q.id = loginUserId}
     IN IF \E q \in found : ~q.is_verified
        THEN /\ toast' = Toast("Akun Belum Diverifikasi", "destructive", <<>>)
             /\ loginPc' = "signOut"
             /\ ev' = Quiet
             /\ UNCHANGED <<loginEmail, loginUserId, formLoading, currentPage,
                            isAdmin, pageVars>>
        ELSE /\ toast' = Toast("Login Berhasil", "default", <<>>)
             /\ handleLoginSuccess(FALSE)
             /\ ev' = LoginEv(loginEmail, "", "success", loginUserId)
             /\ loginPc' = "idle"
             /\ loginEmail' = NoEmail /\ loginUserId' = None
             /\ formLoading' = FALSE
  /\ UNCHANGED <<now, storeVars, user, loading, verificationEmail, regVars,
                 verVars, lastIssue, urlRecovery, dataVars, premVars>>

\* await supabase.auth.signOut() of the unverified user, and the return
LoginSignOut ==
  /\ loginPc = "signOut"
  /\ session' = None
  /\ ev' = LoginEv(loginEmail, "", "unverified", loginUserId)
  /\ toast' = NoToast
  /\ loginPc' = "idle"
  /\ loginEmail' = NoEmail /\ loginUserId' = None
  /\ formLoading' = FALSE
  /\ UNCHANGED <<now, accounts, profiles, otps, otpSeq, appVars, regVars,
                 pageVars, verVars, lastIssue, urlRecovery, dataVars, premVars>>

\* ResetPasswordPage.onSubmit for a valid token: auth.updateUser({password}),
\* then onResetSuccess() unless the update failed
ResetPasswordSubmit(updated) ==
  /\ ~loading
  /\ currentPage = "reset-password"
  /\ session # None
  /\ IF updated
     THEN /\ toast' = Toast("Berhasil", "default", <<>>)
          /\ SetPage("dashboard")
          /\ ev' = Ev("reset_password", NoEmail, <<>>, "changed", 0, "", FALSE)
     ELSE /\ toast' = Toast("Error", "destructive", <<>>)
          /\ ev' = Ev("reset_password", NoEmail, <<>>, "halt", 0, "", FALSE)
          /\ UNCHANGED <<currentPage, pageVars>>
  /\ UNCHANGED <<now, storeVars, user, loading, verificationEmail, isAdmin,
                 regVars, verVars, lastIssue, extVars>>

-----------------------------------------------------------------------------
(* PremiumProvider: refreshPremiumStatus and subscribeToPremium; PremiumModal *)

Plans == {"monthly", "quarterly", "yearly"}
prices == [monthly |-> 20000, quarterly |-> 45000, yearly |-> 60000]
durations == [monthly |-> 1, quarterly |-> 3, yearly |-> 12]

\* the refreshPremiumStatus call that has just completed: who called it, the
\* user it ran for, the time it put into its query, whether the query failed
RefreshEv(caller, u, at, failed) ==
  Ev("refresh", NoEmail, <<>>, "", 0, "", FALSE) @@
    [caller |-> caller, user |-> u, at |-> at, failed |-> failed]

\* a variant whose query has lost the end_date filter
Selected_NoEndDate(call) ==
  {r \in premium_subscriptions :
     /\ r.user_id = call.user /\ call.token = call.user
     /\ r.is_active}

\* the rows the query of refreshPremiumStatus selects: the caller's own rows
\* (row-level security), active, with end_date not before the time sent
Selected(call) ==
  {r \in premium_subscriptions :
     /\ r.user_id = call.user /\ call.token = call.user
     /\ r.is_active
     /\ NewDate(r.end_date) >= NewDate(call.at)}

\* refreshPremiumStatus is called for user u: without a user it resets the
\* state at once, otherwise the query is sent
refreshPremiumStatus(caller, u, token) ==
  IF u = None
  THEN /\ isPremium' = FALSE
       /\ subscription' = NoSubscription
       /\ UNCHANGED refreshing
  ELSE /\ refreshing' = refreshing \cup
            {[caller |-> caller, user |-> u, token |-> token,
              at |-> toISOString(now)]}
       /\ UNCHANGED <<isPremium, subscription>>

\* the auth listener delivers a sign-in or sign-out: the routing effect of
\* AppContent runs, and the effect of PremiumProvider calls
\* refreshPremiumStatus for the new user
AuthStateChangePremium ==
  /\ ~loading
  /\ user # session
  /\ session # None => Cardinality(refreshing) < MaxRefreshing
  /\ user' = session
  /\ SetPage(Route(session, loading, isAdmin, currentPage))
  /\ refreshPremiumStatus("effect", session, session)
  /\ ev' = IF session = None
           THEN RefreshEv("effect", None, toISOString(now), FALSE)
           ELSE Quiet
  /\ toast' = NoToast
  /\ UNCHANGED <<now, storeVars, loading, verificationEmail, isAdmin, regVars,
                 verVars, lastIssue, urlRecovery, loginVars, dataVars, subscribing>>

\* the answer to the query of a refreshPremiumStatus call: .single() gives the
\* row when exactly one is selected and the error PGRST116, which is let
\* pass, otherwise; any other error lands in the catch.  The call of
\* subscribeToPremium returns with it, and handleSubscribe shows its toast.
RefreshAnswer(caller, failed) ==
  /\ \E call \in refreshing :
       /\ call.caller = caller
       /\ refreshing' = refreshing \ {call}
       /\ LET data == IF failed THEN {} ELSE Selected(call)
          IN IF Cardinality(data) = 1
             THEN /\ isPremium' = TRUE
                  /\ subscription' = CHOOSE r \in data : TRUE
             ELSE /\ isPremium' = FALSE
                  /\ subscription' = NoSubscription
       /\ ev' = RefreshEv(call.caller, call.user, call.at, failed)
  /\ IF caller = "subscribe"
     THEN /\ subscribing' = NoCall
          /\ toast' = Toast("Berhasil Berlangganan Premium!", "default", <<>>)
     ELSE /\ toast' = NoToast
          /\ UNCHANGED subscribing
  /\ UNCHANGED <<now, storeVars, appVars, regVars, pageVars, verVars, lastIssue,
                 urlRecovery, loginVars, dataVars>>

\* PremiumModal.handleSubscribe: the modal offers the plans while isPremium
\* is false; subscribeToPremium(planType) returns at once without a user,
\* otherwise it computes the dates and sends the upsert.  One
\* subscribeToPremium call runs at a time.
handleSubscribe(planType) ==
  /\ ~loading
  /\ currentPage = "profile"
  /\ ~isPremium
  /\ subscribing = NoCall
  /\ IF user = None
     THEN /\ toast' = Toast("Berhasil Berlangganan Premium!", "default", <<>>)
          /\ ev' = Ev("subscribe", NoEmail, <<>>, "nouser", 0, "", FALSE)
          /\ UNCHANGED subscribing
     ELSE /\ subscribing' =
               [pc |-> "upsert", user |-> user, token |-> session,
                plan_type |-> planType, price |-> prices[planType],
                start_date |-> toISOString(now),
                end_date |-> toISOString(setMonth(now, getMonth(now) +
                                                       durations[planType]))]
          /\ ev' = Quiet /\ toast' = NoToast
  /\ UNCHANGED <<now, storeVars, appVars, regVars, pageVars, verVars, lastIssue,
                 urlRecovery, loginVars, dataVars, isPremium, subscription,
                 refreshing>>

\* the upsert of subscribeToPremium.  No id is sent, so the row is a new row:
\* the backend refuses it when the caller is not the signed-in user
\* (row-level security) and when the user already has a row of that plan
\* (UNIQUE(user_id, plan_type)), or the call fails; the error is thrown and
\* handleSubscribe shows "Gagal Berlangganan".  After a stored row
\* refreshPremiumStatus is called.
SubscribeUpsert(stored) ==
  /\ subscribing.pc = "upsert"
  /\ IF /\ stored
        /\ subscribing.token = subscribing.user
        /\ ~\E r \in premium_subscriptions :
              r.user_id = subscribing.user /\ r.plan_type = subscribing.plan_type
     THEN /\ Cardinality(refreshing) < MaxRefreshing
          /\ premium_subscriptions' = premium_subscriptions \cup
               {[id |-> Cardinality(premium_subscriptions) + 1,
                 user_id |-> subscribing.user,
                 plan_type |-> subscribing.plan_type,
                 price |-> subscribing.price,
                 start_date |-> subscribing.start_date,
                 end_date |-> subscribing.end_date,
                 is_active |-> TRUE]}
          /\ subscribing' = [subscribing EXCEPT !.pc = "refresh"]
          /\ refreshPremiumStatus("subscribe", subscribing.user, session)
          /\ ev' = Ev("subscribe", NoEmail, <<>>, "stored", 0, "", FALSE)
          /\ toast' = NoToast
     ELSE /\ subscribing' = NoCall
          /\ toast' = Toast("Gagal Berlangganan", "destructive", <<>>)
          /\ ev' = Ev("subscribe", NoEmail, <<>>, "threw", 0, "", FALSE)
          /\ UNCHANGED <<premium_subscriptions, isPremium, subscription, refreshing>>
  /\ UNCHANGED <<now, storeVars, appVars, regVars, pageVars, verVars, lastIssue,
                 urlRecovery, loginVars, jadwal_kuliah, tugas, subtasks>>

\* a month passes; a call to the backend is answered or fails long before
MonthPasses ==
  /\ now < StartTime + MaxMonths * MinutesPerMonth
  /\ subscribing = NoCall /\ refreshing = {}
  /\ now' = now + MinutesPerMonth
  /\ ev' = Quiet /\ toast' = NoToast
  /\ UNCHANGED <<storeVars, appVars, regVars, pageVars, verVars, lastIssue, extVars>>

-----------------------------------------------------------------------------
Next ==
  \/ Tick
  \/ AuthLoaded
  \/ AuthStateChange
  \/ WelcomeRegisterClick
  \/ RegisterBackClick
  \/ VerificationBackClick
  \/ DashboardLogout
  \/ \E e \in Emails : RegisterSubmit(e)
  \/ \E answered \in BOOLEAN : RegisterCheckExisting(answered)
  \/ \E outcome \in {"ok", "error", "nouser"}, k \in RandomDraws, signedIn \in BOOLEAN :
       RegisterSignUp(outcome, k, signedIn)
  \/ \E stored \in BOOLEAN : RegisterInsertOtp(stored)
  \/ \E delivered \in BOOLEAN : RegisterSendEmail(delivered)
  \/ \E index \in 1..OTP_BOXES, value \in OtpInputs : handleOtpChange(index, value)
  \/ VerifyClick
  \/ VerifyFinish
  \/ ResendClick
  \/ handleResendCode

Spec == Init /\ [][Next]_vars

-----------------------------------------------------------------------------
(* The verification screen on its own.  It starts where a registration      *)
(* whose e-mail was delivered has just opened the screen.  SessionSpec       *)
(* follows the resend cooldown timer period by timer period; EntrySpec       *)
(* follows what is typed into the boxes.                                     *)

\* what can be typed or pasted into a box of the screen
SessionOtpInputs == OtpInputs \cup {<<"a">>}

SessionInit ==
  LET e == CHOOSE x \in Emails : TRUE
      c == generateOTP(DrawNames[1])
      x == toISOString(StartTime + OTP_VALID_MINUTES)
  IN
  /\ now = StartTime
  /\ accounts = {[id |-> 1, email |-> e]}
  /\ profiles = {[id |-> 1, email |-> e, is_verified |-> FALSE]}
  /\ otps = {[id |-> 1, user_id |-> 1, email |-> e, otp_code |-> c,
              expires_at |-> x, is_used |-> FALSE, created_at |-> StartTime]}
  /\ otpSeq = 1
  /\ session = None /\ user = None /\ loading = FALSE
  /\ currentPage = "verification" /\ verificationEmail = e /\ isAdmin = FALSE
  /\ regPc = "idle" /\ regEmail = NoEmail /\ regUserId = None
  /\ regOtp = <<>> /\ regExpiresAt = <<0, 0>> /\ regSwallowed = FALSE
  /\ otp = EmptyOtp /\ vLoading = FALSE /\ resendCooldown = 0
  /\ verifyCalls = 0 /\ sinceResend = NoResend
  /\ verifyPc = "idle" /\ verifyCode = <<>> /\ verifyEmail = NoEmail
  /\ resendPc = "idle"
  /\ toast = Toast("Registrasi Berhasil", "default", <<>>)
  /\ ev = Ev("register_sent", e, c, "verification", 1, "", FALSE)
  /\ lastIssue = [email |-> e, code |-> c, expires_at |-> x]
  /\ ExtInit

SessionNext ==
  \/ CooldownTimer
  \/ VerifyClick
  \/ ResendClick
  \/ handleResendCode

SessionSpec == SessionInit /\ [][SessionNext]_vars

EntryNext ==
  \/ Tick
  \/ \E index \in 1..OTP_BOXES, value \in SessionOtpInputs : handleOtpChange(index, value)
  \/ VerifyClick
  \/ VerifyFinish
  \/ ResendClick
  \/ handleResendCode

EntrySpec == SessionInit /\ [][EntryNext]_vars

-----------------------------------------------------------------------------
(* Registration, verification and the profile page, for two e-mail          *)
(* addresses.                                                               *)

AccountEmails == Emails \cup {"c@x.com"}

AccountNext ==
  \/ AuthLoaded
  \/ AuthStateChange
  \/ WelcomeRegisterClick
  \/ \E e \in AccountEmails : RegisterSubmit(e)
  \/ \E answered \in BOOLEAN : RegisterCheckExisting(answered)
  \/ \E outcome \in {"ok", "error", "nouser"}, k \in RandomDraws, signedIn \in BOOLEAN :
       RegisterSignUp(outcome, k, signedIn)
  \/ \E stored \in BOOLEAN : RegisterInsertOtp(stored)
  \/ \E delivered \in BOOLEAN : RegisterSendEmail(delivered)
  \/ \E index \in 1..OTP_BOXES, value \in OtpInputs : handleOtpChange(index, value)
  \/ VerifyClick
  \/ VerifyFinish
  \/ DashboardProfileClick
  \/ ProfileBackClick
  \/ \E newEmail \in AccountEmails, passwordOk, updated, profileUpdated \in BOOLEAN :
       EmailFormSubmit(newEmail, passwordOk, updated, profileUpdated)
  \/ \E confirmation \in Confirmations,
        profileGone, jadwalGone, tugasGone, otpGone \in BOOLEAN :
       handleDeleteAccount(confirmation, profileGone, jadwalGone, tugasGone, otpGone)

AccountSpec == Init /\ [][AccountNext]_vars

-----------------------------------------------------------------------------
(* generateOTP on its own, over every value Math.random() can take at the   *)
(* model's resolution.                                                      *)

AllDraws == 0..(RandomResolution - 1)

\* const otp = generateOTP()
GenerateOtp(k) ==
  /\ regOtp = <<>>
  /\ regOtp' = generateOTP(k)
  /\ UNCHANGED <<now, storeVars, appVars, regPc, regEmail, regUserId, regExpiresAt,
                 regSwallowed, pageVars, verVars, histVars>>
  /\ UNCHANGED extVars

GenNext == \E k \in AllDraws : GenerateOtp(k)

GenSpec == Init /\ [][GenNext]_vars

-----------------------------------------------------------------------------
(* Login, admin login and routing.  Two accounts exist: the first has not   *)
(* been verified, the second has been marked verified in the backend.  The  *)
(* page is opened with or without a recovery link, and with or without a    *)
(* stored session.                                                          *)

LoginEmails == {"a@x.com", "b@x.com", AdminEmail}
LoginPasswords == {AdminPassword, "secret"}

LoginInit ==
  /\ now = StartTime
  /\ accounts = {[id |-> 1, email |-> "a@x.com"], [id |-> 2, email |-> "b@x.com"]}
  /\ profiles = {[id |-> 1, email |-> "a@x.com", is_verified |-> FALSE],
                 [id |-> 2, email |-> "b@x.com", is_verified |-> TRUE]}
  /\ otps = {} /\ otpSeq = 0
  /\ session \in {None, 1, 2}
  /\ user = None /\ loading = TRUE
  /\ currentPage = "welcome" /\ verificationEmail = NoEmail /\ isAdmin = FALSE
  /\ regPc = "idle" /\ regEmail = NoEmail /\ regUserId = None
  /\ regOtp = <<>> /\ regExpiresAt = <<0, 0>> /\ regSwallowed = FALSE
  /\ otp = EmptyOtp /\ vLoading = FALSE /\ resendCooldown = 0
  /\ verifyCalls = 0 /\ sinceResend = NoResend
  /\ verifyPc = "idle" /\ verifyCode = <<>> /\ verifyEmail = NoEmail
  /\ resendPc = "idle"
  /\ toast = NoToast /\ ev = Quiet /\ lastIssue = NoIssue
  /\ urlRecovery \in BOOLEAN
  /\ loginPc = "idle" /\ loginEmail = NoEmail /\ loginUserId = None
  /\ formLoading = FALSE
  /\ jadwal_kuliah = {} /\ tugas = {} /\ subtasks = {}
  /\ premium_subscriptions = {}
  /\ isPremium = FALSE /\ subscription = NoSubscription
  /\ refreshing = {} /\ subscribing = NoCall

LoginNext ==
  \/ AuthLoaded
  \/ AuthStateChange
  \/ WelcomeLoginClick
  \/ LoginBackClick
  \/ \E e \in LoginEmails, pw \in LoginPasswords : LoginSubmit(e, pw)
  \/ \E outcome \in {"ok", "error", "nouser"} : LoginSignIn(outcome)
  \/ \E answered \in BOOLEAN : LoginCheckProfile(answered)
  \/ LoginSignOut
  \/ handleLogout
  \/ DashboardLogout
  \/ \E updated \in BOOLEAN : ResetPasswordSubmit(updated)

LoginSpec == LoginInit /\ [][LoginNext]_vars

-----------------------------------------------------------------------------
(* The premium context, for one user who is signed in and has opened the    *)
(* profile page; the first refreshPremiumStatus has found no subscription.  *)

PremiumInit ==
  /\ now = StartTime
  /\ accounts = {[id |-> 1, email |-> "a@x.com"]}
  /\ profiles = {[id |-> 1, email |-> "a@x.com", is_verified |-> FALSE]}
  /\ otps = {} /\ otpSeq = 0
  /\ session = 1 /\ user = 1 /\ loading = FALSE
  /\ currentPage = "profile" /\ verificationEmail = NoEmail /\ isAdmin = FALSE
  /\ regPc = "idle" /\ regEmail = NoEmail /\ regUserId = None
  /\ regOtp = <<>> /\ regExpiresAt = <<0, 0>> /\ regSwallowed = FALSE
  /\ otp = EmptyOtp /\ vLoading = FALSE /\ resendCooldown = 0
  /\ verifyCalls = 0 /\ sinceResend = NoResend
  /\ verifyPc = "idle" /\ verifyCode = <<>> /\ verifyEmail = NoEmail
  /\ resendPc = "idle"
  /\ toast = NoToast /\ ev = Quiet /\ lastIssue = NoIssue
  /\ ExtInit

PremiumNext ==
  \/ \E planType \in Plans : handleSubscribe(planType)
  \/ \E stored \in BOOLEAN : SubscribeUpsert(stored)
  \/ \E caller \in {"effect", "subscribe"}, failed \in BOOLEAN :
       RefreshAnswer(caller, failed)
  \/ AuthStateChangePremium
  \/ DashboardLogout
  \/ DashboardProfileClick
  \/ ProfileBackClick
  \/ WelcomeLoginClick
  \/ \E e \in {"a@x.com"}, pw \in {"secret"} : LoginSubmit(e, pw)
  \/ \E outcome \in {"ok", "error"} : LoginSignIn(outcome)
  \/ \E answered \in BOOLEAN : LoginCheckProfile(answered)
  \/ LoginSignOut
  \/ MonthPasses

PremiumSpec == PremiumInit /\ [][PremiumNext]_vars

-----------------------------------------------------------------------------
(* The danger zone of the profile page.  Two users have accounts; the first *)
(* is signed in and has opened the profile page.  Each of them may have a   *)
(* schedule entry, a task with or without a subtask, an OTP record and a    *)
(* premium subscription.                                                    *)

UserIds == {1, 2}

JadwalRows == {[id |-> u, user_id |-> u] : u \in UserIds}
TugasRows == {[id |-> u, user_id |-> u] : u \in UserIds}
SubtaskRows == {[id |-> u, tugas_id |-> u] : u \in UserIds}
OtpRows ==
  {[id |-> u, user_id |-> u, email |-> IF u = 1 THEN "a@x.com" ELSE "b@x.com",
    otp_code |-> generateOTP(DrawNames[1]),
    expires_at |-> toISOString(StartTime + OTP_VALID_MINUTES),
    is_used |-> FALSE, created_at |-> StartTime] : u \in UserIds}
PremiumRows ==
  {[id |-> u, user_id |-> u, plan_type |-> "monthly", price |-> prices["monthly"],
    start_date |-> toISOString(StartTime),
    end_date |-> toISOString(setMonth(StartTime, getMonth(StartTime) +
                                                durations["monthly"])),
    is_active |-> TRUE] : u \in UserIds}

DangerInit ==
  /\ now = StartTime
  /\ accounts = {[id |-> 1, email |-> "a@x.com"], [id |-> 2, email |-> "b@x.com"]}
  /\ profiles = {[id |-> 1, email |-> "a@x.com", is_verified |-> FALSE],
                 [id |-> 2, email |-> "b@x.com", is_verified |-> FALSE]}
  /\ otps \in SUBSET OtpRows /\ otpSeq = Cardinality(OtpRows)
  /\ session = 1 /\ user = 1 /\ loading = FALSE
  /\ currentPage = "profile" /\ verificationEmail = NoEmail /\ isAdmin = FALSE
  /\ regPc = "idle" /\ regEmail = NoEmail /\ regUserId = None
  /\ regOtp = <<>> /\ regExpiresAt = <<0, 0>> /\ regSwallowed = FALSE
  /\ otp = EmptyOtp /\ vLoading = FALSE /\ resendCooldown = 0
  /\ verifyCalls = 0 /\ sinceResend = NoResend
  /\ verifyPc = "idle" /\ verifyCode = <<>> /\ verifyEmail = NoEmail
  /\ resendPc = "idle"
  /\ toast = NoToast /\ ev = Quiet /\ lastIssue = NoIssue
  /\ urlRecovery = FALSE
  /\ loginPc = "idle" /\ loginEmail = NoEmail /\ loginUserId = None
  /\ formLoading = FALSE
  /\ jadwal_kuliah \in SUBSET JadwalRows
  /\ tugas \in SUBSET TugasRows
  /\ subtasks \in SUBSET {st \in SubtaskRows : \E t \in tugas : t.id = st.tugas_id}
  /\ premium_subscriptions \in SUBSET PremiumRows
  /\ isPremium = FALSE /\ subscription = NoSubscription
  /\ refreshing = {} /\ subscribing = NoCall

\* window.prompt returns null when the dialog is cancelled.
Cancelled == "<null>"

PromptResults == Confirmations \cup {Cancelled}

DangerNext ==
  \/ \E confirmation \in PromptResults,
        profileGone, jadwalGone, tugasGone, otpGone \in BOOLEAN :
       handleDeleteAccount(confirmation, profileGone, jadwalGone, tugasGone, otpGone)
  \/ ProfileBackClick
  \/ DashboardProfileClick
  \/ DashboardLogout
  \/ AuthStateChange

DangerSpec == DangerInit /\ [][DangerNext]_vars

-----------------------------------------------------------------------------
(* The claims *)

Active(r, t) == ~r.is_used /\ t <= NewDate(r.expires_at)
RowIds(rows) == {r.id : r \in rows}

\* an issue for e-mail e completes: registration has stored its row, or a
\* resend has reported the new code sent
IssueCompletes(e) ==
  \/ regPc = "insertOtp" /\ regPc' = "sendEmail" /\ regEmail = e
  \/ resendPc = "wait" /\ resendPc' = "idle" /\ verificationEmail = e

\* C1: verify reports Success exactly when an unused, unexpired row matches the
\* e-mail and the submitted code, Expired exactly when the matching unused row
\* is past its expiry, and NotFound in every other case.
C1_VerifyDecidedByStore ==
  (ev.op = "verify" /\ ev.result # "Incomplete") =>
     /\ (ev.result = "Success") <=> (ev.class = "valid")
     /\ (ev.result = "Expired") <=> (ev.class = "expired")
     /\ (ev.result = "NotFound") <=> (ev.class = "none")

\* C2: every issue (registration or resend) for an e-mail adds a new unused row
\* for it and leaves every earlier row of that e-mail used, so that exactly one
\* row of the e-mail is Active afterwards.
C2_IssueSupersedes ==
  [][\A e \in Emails : IssueCompletes(e) =>
       /\ \E q \in otps' : q.id \notin RowIds(otps) /\ q.email = e /\ Active(q, now')
       /\ \A q \in otps' : (q.id \in RowIds(otps) /\ q.email = e) => q.is_used
       /\ Cardinality({q \in otps' : q.email = e /\ Active(q, now')}) = 1]_vars

\* C3: once verify has reported Success for an e-mail and code, the row is gone
\* from the unused pool and a further verify with the same e-mail and code does
\* not report Success.
C3_SingleUse ==
  (ev.op = "verify" /\ ev.result = "Success") =>
     /\ Matching(ev.email, ev.code) = {}
     /\ handleVerifyResult(ev.email, ev.code) # "Success"

\* C4: a row is inserted unused; is_used never goes back from true to false;
\* and a row that is not Active (used, or past its expiry) never becomes Active
\* again, whatever step is taken.
C4_UsedOneWay ==
  [][\A q \in otps' :
       IF q.id \in RowIds(otps)
       THEN \A r \in otps : r.id = q.id =>
              /\ r.is_used => q.is_used
              /\ ~Active(r, now) => ~Active(q, now')
       ELSE ~q.is_used]_vars

C4_Witness ==
  /\ ev.op = "verify"
  /\ ev.class = "expired"
  /\ \E r \in otps : ~r.is_used /\ now > NewDate(r.expires_at)

\* C5: a verify whose matching row is past its expiry reports Expired, and a
\* verify that does not report Success changes no stored row.
C5_ExpiredVerifyLeavesRow ==
  [][ev'.op = "verify" =>
       /\ ev'.class = "expired" => ev'.result = "Expired"
       /\ ev'.result # "Success" => otps' = otps]_vars

\* C6: the expiry test is inclusive: at now = expiresAt a stored code is not
\* expired and verify reports Success for it; at every now > expiresAt
\* isOTPExpired holds, and at every now < expiresAt it does not.
C6_ExpiryInclusive ==
  \A r \in otps :
     /\ now = NewDate(r.expires_at) =>
          /\ ~isOTPExpired(r.expires_at)
          /\ handleVerifyResult(r.email, r.otp_code) = "Success"
     /\ now > NewDate(r.expires_at) => isOTPExpired(r.expires_at)
     /\ now < NewDate(r.expires_at) => ~isOTPExpired(r.expires_at)

C6_Witness ==
  /\ ev.op = "verify"
  /\ ev.result = "Success"
  /\ \E r \in Matching(ev.email, ev.code) :
        now = NewDate(r.expires_at) /\ ~isOTPExpired(r.expires_at)

\* C7: a verify that follows an issue for the same e-mail with exactly the
\* issued code, before its expiry and with no issue or verify in between,
\* reports Success.
C7_RoundTrip ==
  (ev.op = "verify" /\ ev.roundTrip) => ev.result = "Success"

C7_Witness ==
  ev.op = "verify" /\ ev.roundTrip /\ ev.result = "Success" /\ ev.class = "valid"

\* C8: whenever the verification screen reports success, the profile of the
\* account with that e-mail has is_verified = true.
C8_SuccessMarksProfile ==
  (ev.op = "verify" /\ ev.result = "Success") =>
     /\ \E p \in profiles : p.email = ev.email
     /\ \A p \in profiles : p.email = ev.email => p.is_verified

\* C9: when the dispatch of a newly issued code fails, registration has made
\* exactly one send attempt, the row is still stored and unused, the toast shows
\* the raw code, and the verification screen is entered for that e-mail, as it
\* is when the dispatch succeeds.
C9_DispatchFailureFallback ==
  /\ ev.op = "register_send_failed" =>
       /\ ev.sends = 1
       /\ \E r \in otps : r.email = ev.email /\ r.otp_code = ev.code /\ ~r.is_used
       /\ toast.code = ev.code /\ ev.code # <<>>
       /\ toast.variant # "destructive"
       /\ regPc = "idle"
  /\ ev.op \in {"register_send_failed", "register_sent"} =>
       /\ currentPage = "verification"
       /\ verificationEmail = ev.email

C9_Witness ==
  /\ ev.op = "register_send_failed"
  /\ currentPage = "verification"
  /\ toast.code = ev.code

\* C10: when persisting the OTP row fails, the handler stops with a destructive
\* toast: no dispatch follows, the code is not shown, and the verification
\* screen is not entered.
C10_PersistFailureHalts ==
  ev.op = "register_otp_error" =>
     /\ regPc = "idle"
     /\ ev.sends = 0
     /\ toast.variant = "destructive"
     /\ toast.code = <<>>
     /\ currentPage # "verification"
     /\ ~(\E r \in otps : r.email = ev.email /\ r.otp_code = ev.code)

C10_Witness ==
  /\ ev.op = "register_otp_error"
  /\ toast.variant = "destructive"
  /\ \E a \in accounts : a.email = ev.email

\* C11: in every registration the dispatch is attempted only after the insert
\* of the row has returned without error: the handler reaches the dispatch
\* only by the step that stores the row of its e-mail and code, the dispatch
\* is made once and for exactly that e-mail and code, and the verification
\* screen is opened only by the step in which the dispatch attempt finishes.
C11_InsertBeforeDispatch ==
  [][/\ (regPc' = "sendEmail" /\ regPc # "sendEmail") =>
          \E q \in otps' : /\ q.id \notin RowIds(otps)
                            /\ q.email = regEmail' /\ q.otp_code = regOtp'
                            /\ q.user_id = regUserId' /\ ~q.is_used
     /\ ev'.op \in {"register_sent", "register_send_failed"} =>
          /\ regPc = "sendEmail"
          /\ ev'.email = regEmail /\ ev'.code = regOtp /\ ev'.sends = 1
     /\ (currentPage' = "verification" /\ currentPage # "verification") =>
          /\ ev'.op \in {"register_sent", "register_send_failed"}
          /\ verificationEmail' = ev'.email]_vars

C11_Witness ==
  /\ ev.op = "register_sent"
  /\ currentPage = "verification"
  /\ \E r \in otps : r.email = ev.email /\ r.otp_code = ev.code

\* C12: whenever a resend reports 'code sent', it has minted a code, a row
\* for the screen's e-mail and that code has been added to the store by the
\* resend, and one dispatch of it has been attempted.
C12_ResendIssues ==
  [][(ev'.op = "resend" /\ ev'.result = "sent") =>
       /\ ev'.code # <<>>
       /\ ev'.sends = 1
       /\ \E q \in otps' : /\ q.id \notin RowIds(otps)
                            /\ q.email = ev'.email /\ q.otp_code = ev'.code
                            /\ ~q.is_used]_vars

\* C13: on one verification screen the number of handleVerify calls since the
\* last resend stays in 0..5 (at 5 the screen takes no further verify), and a
\* resend sets it back to 0.
C13_AttemptLimit ==
  [][/\ verifyCalls' \in 0..5
     /\ (resendPc = "idle" /\ resendPc' = "wait") => verifyCalls' = 0]_vars

\* C14: the resend cooldown is an integer in 0..60; a resend is taken only
\* at 0 and sets it to 60; from then on it is 60 less the number of seconds
\* elapsed, down to 0 (one less per second); so a resend follows the previous
\* one of the same screen by at least 60 seconds.
C14_Cooldown ==
  [][/\ resendCooldown' \in 0..RESEND_COOLDOWN
     /\ (resendPc = "idle" /\ resendPc' = "wait") =>
          /\ resendCooldown = 0 /\ resendCooldown' = RESEND_COOLDOWN
          /\ sinceResend = NoResend \/ sinceResend >= RESEND_COOLDOWN
     /\ resendCooldown' =
          IF sinceResend' = NoResend \/ sinceResend' >= RESEND_COOLDOWN THEN 0
          ELSE RESEND_COOLDOWN - sinceResend'
     /\ (sinceResend # NoResend /\ sinceResend' = sinceResend + 1) =>
          resendCooldown' = IF resendCooldown = 0 THEN 0 ELSE resendCooldown - 1]_vars

C14_Witness ==
  /\ currentPage = "verification"
  /\ resendPc = "idle"
  /\ sinceResend = RESEND_COOLDOWN
  /\ resendCooldown = 0

DecimalDigits == {DigitChar(d) : d \in 0..9}

\* C15: every box holds at most one character; the code handed to the
\* verification is exactly 4 characters, each a decimal digit; and a
\* submission whose length is not 4 is rejected without reporting success.
C15_FourDigits ==
  /\ \A i \in 1..OTP_BOXES : Len(otp[i]) <= 1
  /\ verifyPc = "wait" =>
       /\ Len(verifyCode) = OTP_BOXES
       /\ \A j \in 1..Len(verifyCode) : verifyCode[j] \in DecimalDigits
  /\ (ev.op = "verify" /\ Len(ev.code) # OTP_BOXES) => ev.result = "Incomplete"

\* C16: every run of the register, verify and resend handlers ends with a
\* toast, and a run in which an external call (profile lookup, sign-up, OTP
\* insert, e-mail dispatch) has failed ends with a toast that tells of it: a
\* destructive one, or the fallback toast that shows the code.
C16_FailuresNotified ==
  [][/\ (regPc # "idle" /\ regPc' = "idle") =>
          /\ toast'.title # ""
          /\ (\/ regSwallowed
              \/ ev'.op \in {"register_auth_error", "register_no_user",
                             "register_otp_error", "register_send_failed"}) =>
                (toast'.variant = "destructive" \/ toast'.code # <<>>)
     /\ (verifyPc # "idle" /\ verifyPc' = "idle") => toast'.title # ""
     /\ (resendPc # "idle" /\ resendPc' = "idle") => toast'.title # ""]_vars

\* C17: when a verify finds several unused, unexpired rows for its e-mail and
\* submitted code, it reports Success and leaves every one of them used (the
\* newest as the one verified, the older ones superseded): no unused row of
\* that e-mail and code remains.
C17_TieBreak ==
  [][(/\ ev'.op = "verify" /\ ev'.result # "Incomplete"
      /\ Cardinality({r \in otps : /\ r.email = ev'.email
                                   /\ r.otp_code = ev'.code
                                   /\ Active(r, now)}) > 1) =>
       /\ ev'.result = "Success"
       /\ \A r \in otps' :
             (r.email = ev'.email /\ r.otp_code = ev'.code) => r.is_used]_vars

DigitValue(c) == CHOOSE d \in 0..9 : DigitChar(d) = c

RECURSIVE ParseDecimal(_)
ParseDecimal(str) ==
  IF str = <<>> THEN 0
  ELSE 10 * ParseDecimal(SubSeq(str, 1, Len(str) - 1)) + DigitValue(str[Len(str)])

\* the least draw for which generateOTP gives n
DrawFor(n) == ((n - OTP_BASE) * RandomResolution + OTP_SPAN - 1) \div OTP_SPAN

\* C18: generateOTP returns a string of exactly 4 decimal digits that does not
\* start with 0 and denotes an integer in 1000..9999, and every integer in
\* 1000..9999 is the result of some draw.
C18_GenerateOtpRange ==
  /\ regOtp # <<>> =>
       /\ Len(regOtp) = 4
       /\ \A j \in 1..Len(regOtp) : regOtp[j] \in DecimalDigits
       /\ regOtp[1] # "0"
       /\ ParseDecimal(regOtp) \in 1000..9999
       /\ NumberToString(ParseDecimal(regOtp)) = regOtp
  /\ regOtp = <<>> =>
       \A n \in 1000..9999 :
          /\ DrawFor(n) \in AllDraws
          /\ generateOTP(DrawFor(n)) = NumberToString(n)

C18_Witness ==
  regOtp = <<"9", "9", "9", "9">>

\* C19: the expiresAt minted with a code is the time of minting plus exactly
\* 10 minutes; a verify of a stored code before its expiresAt does not report
\* Expired, and a verify after its expiresAt does not report Success.
C19_ExpiryTenMinutes ==
  [][/\ (regPc = "signUp" /\ regPc' = "insertOtp") =>
          NewDate(regExpiresAt') = now + OTP_VALID_MINUTES
     /\ \A q \in otps' : q.id \notin RowIds(otps) => q.expires_at = regExpiresAt
     /\ (ev'.op = "verify" /\ ev'.result # "Incomplete") =>
          \A r \in otps :
             (r.email = ev'.email /\ r.otp_code = ev'.code /\ ~r.is_used) =>
                /\ now < NewDate(r.expires_at) => ev'.result # "Expired"
                /\ now > NewDate(r.expires_at) => ev'.result # "Success"]_vars

\* C21: the admin panel is shown only while the admin flag is set; the flag
\* becomes set only by a login with the admin e-mail and the admin password;
\* logout clears the flag and the page after it is the welcome page.
C21_AdminPanelOnlyForAdmin ==
  [][/\ currentPage' = "admin-panel" => isAdmin'
     /\ (~isAdmin /\ isAdmin') =>
          /\ ev'.op = "login"
          /\ ev'.email = AdminEmail /\ ev'.password = AdminPassword
     /\ ev'.op = "admin_logout" => (~isAdmin' /\ currentPage' = "welcome")]_vars

\* C22: a login step that reports success for a non-admin user is a step for
\* a user whose stored profile is verified, and a login whose user has an
\* unverified profile goes on to the sign-out.
C22_NoSuccessForUnverified ==
  [][/\ (ev'.op = "login" /\ ev'.result = "success") =>
          \A q \in profiles : q.id = ev'.user_id => q.is_verified
     /\ (loginPc = "profile" /\ loginPc' # "profile"
           /\ \E q \in profiles : q.id = loginUserId /\ ~q.is_verified) =>
          loginPc' = "signOut"]_vars

\* C23: the dashboard is not the current page while the signed-in user's
\* profile is unverified.
C23_NoDashboardForUnverified ==
  (currentPage = "dashboard" /\ user # None) =>
     \A q \in profiles : q.id = user => q.is_verified

\* the page the routing effect of AppContent chooses
C30_Routed(recovery, adm, u) ==
  IF recovery THEN "reset-password"
  ELSE IF adm THEN "admin-panel"
  ELSE IF u # None THEN "dashboard"
  ELSE "welcome"

\* C30 as stated: once loading is false, every change of user, loading or
\* the admin flag leaves the page the routing rule chooses (recovery link,
\* then admin flag, then signed-in user, then welcome), and after every
\* sign-out the page is the welcome page.
C30_SignOutToWelcome ==
  [][/\ (~loading' /\ (user' # user \/ loading' # loading \/ isAdmin' # isAdmin)) =>
          currentPage' = C30_Routed(urlRecovery', isAdmin', user')
     /\ (~loading' /\ user # None /\ user' = None) =>
          currentPage' = "welcome"]_vars

\* C30, amended: the routing rule as above; after a sign-out the page is the
\* welcome page when the URL carries no recovery link and the admin flag is
\* not set.
C30_RoutingEffect ==
  [][/\ (~loading' /\ (user' # user \/ loading' # loading \/ isAdmin' # isAdmin)) =>
          currentPage' = C30_Routed(urlRecovery', isAdmin', user')
     /\ (~loading' /\ user # None /\ user' = None /\ ~urlRecovery' /\ ~isAdmin') =>
          currentPage' = "welcome"]_vars

C30_Witness ==
  /\ urlRecovery /\ ~loading
  /\ user # None
  /\ currentPage = "reset-password"

\* C24: when the registration handler ends without entering the verification
\* screen, it has created no account, and after every end of the handler
\* every account has an OTP record issued for it.
C24_AllOrNothing ==
  [][(regPc # "idle" /\ regPc' = "idle") =>
        /\ ev'.result = "halt" => regUserId = None
        /\ \A a \in accounts' : \E r \in otps' : r.user_id = a.id]_vars

\* C25: a registration for an e-mail that a profile already carries, taken
\* before the handler has created anything itself (at the lookup and at the
\* sign-up), leaves accounts, profiles and OTP records as they are, sends no
\* e-mail, does not open the verification screen and goes no further than
\* the sign-up.
C25_ExistingEmailChangesNothing ==
  [][(/\ regPc \in {"checkExisting", "signUp"}
      /\ regPc' # regPc
      /\ \E q \in profiles : q.email = regEmail) =>
        /\ UNCHANGED <<accounts, profiles, otps, otpSeq>>
        /\ ev'.sends = 0
        /\ currentPage' = currentPage
        /\ regPc' \in {"signUp", "idle"}
        /\ regPc = "signUp" => regPc' = "idle"]_vars

\* C26: when a subscribeToPremium call returns without throwing, that is
\* when the refreshPremiumStatus it awaits has completed, isPremium is true.
C26_SubscribedIsPremium ==
  [][(ev'.op = "refresh" /\ ev'.caller = "subscribe") => isPremium']_vars

C28_NoUserDataLeft ==
  [][(ev'.op = "delete_account" /\ ev'.result = "deleted") =>
       /\ \A q \in profiles' : q.id # user
       /\ \A j \in jadwal_kuliah' : j.user_id # user
       /\ \A t \in tugas' : t.user_id # user
       /\ \A st \in subtasks' :
            ~\E t \in tugas : t.id = st.tugas_id /\ t.user_id = user
       /\ \A r \in otps' : r.user_id # user
       /\ \A r \in premium_subscriptions' : r.user_id # user]_vars

\* C29: a call of handleDeleteAccount without a signed-in user, or with a
\* typed confirmation other than exactly "HAPUS AKUN" (a cancelled prompt
\* included), leaves every table and the session unchanged.
C29_NoDeletionWithoutConfirmation ==
  [][(/\ ev'.op = "delete_account"
      /\ (ev'.result = "nouser" \/ ev'.typed # "HAPUS AKUN")) =>
       UNCHANGED <<accounts, profiles, otps, jadwal_kuliah, tugas, subtasks,
                   premium_subscriptions, session>>]_vars

C29_Witness ==
  /\ ev.op = "delete_account" /\ ev.result = "halt"
  /\ ev.typed = "hapus akun"
  /\ \E q \in profiles : q.id = user
  /\ \E j \in jadwal_kuliah : j.user_id = user
  /\ \E r \in otps : r.user_id = user
  /\ session = user

====
